---- MODULE Spec2Model ----
(***************************************************************************)
(* A model of jpterm.py, the JMESPath text terminal: the document loader   *)
(* (_load_input_json, _load_json_from_pipe), the interactive display       *)
(* (JMESPathDisplay._on_edit, unhandled_input), and the output written at  *)
(* exit (display_output), driven by main().                                *)
(*                                                                         *)
(* Python values are records tagged by type: None is [t |-> "null"], and   *)
(* every other type carries its payload in a field of its own.  A dict is  *)
(* a sequence of <<key, value>> pairs, which keeps the insertion order the *)
(* program asks for (collections.OrderedDict).  Text is a TLA+ string.     *)
(***************************************************************************)
EXTENDS Integers, Sequences, FiniteSets, TLC

None == [t |-> "null"]
PyBool(b) == [t |-> "bool", b |-> b]
PyInt(n) == [t |-> "int", n |-> n]
\* A float by its shortest repr: whole part and fractional digits.
PyFloat(w, f) == [t |-> "float", w |-> w, f |-> f]
PyStr(s) == [t |-> "str", s |-> s]
PyList(items) == [t |-> "list", items |-> items]
PyDict(pairs) == [t |-> "dict", pairs |-> pairs]

SAMPLE_JSON ==
    PyDict(<< <<"a", PyStr("foo")>>,
              <<"b", PyInt(2)>>,
              <<"c", PyDict(<< <<"d", PyStr("baz")>>,
                               <<"e", PyList(<<PyInt(1), PyInt(2), PyInt(3)>>)>> >>)>>,
              <<"d", PyBool(TRUE)>>,
              <<"e", None>>,
              <<"f", PyFloat(1, 1)>> >>)

OUTPUT_MODES == <<"result", "expression", "quiet">>

(***************************************************************************)
(* json.dumps(obj, indent=2, ensure_ascii=False)                           *)
(***************************************************************************)
RECURSIVE Spaces(_)
Spaces(n) == IF n = 0 THEN "" ELSE " " \o Spaces(n - 1)

\* The characters json.dumps escapes inside a string literal.
RECURSIVE EscapeFrom(_, _)
EscapeFrom(s, i) ==
    IF i > Len(s) THEN ""
    ELSE LET ch == SubSeq(s, i, i)
             out == CASE ch = "\"" -> "\\\""
                      [] ch = "\\" -> "\\\\"
                      [] ch = "\n" -> "\\n"
                      [] OTHER -> ch
         IN  out \o EscapeFrom(s, i + 1)

RECURSIVE Dumps(_, _)
RECURSIVE DumpsItems(_, _, _)
RECURSIVE DumpsPairs(_, _, _)
DumpsItems(items, i, level) ==
    IF i > Len(items) THEN ""
    ELSE (IF i = 1 THEN "" ELSE ",")
         \o "\n" \o Spaces(2 * level) \o Dumps(items[i], level)
         \o DumpsItems(items, i + 1, level)
DumpsPairs(pairs, i, level) ==
    IF i > Len(pairs) THEN ""
    ELSE (IF i = 1 THEN "" ELSE ",")
         \o "\n" \o Spaces(2 * level)
         \o "\"" \o EscapeFrom(pairs[i][1], 1) \o "\"" \o ": "
         \o Dumps(pairs[i][2], level)
         \o DumpsPairs(pairs, i + 1, level)
Dumps(obj, level) ==
    CASE obj.t = "null" -> "null"
      [] obj.t = "bool" -> IF obj.b THEN "true" ELSE "false"
      [] obj.t = "int" -> ToString(obj.n)
      [] obj.t = "float" -> ToString(obj.w) \o "." \o ToString(obj.f)
      [] obj.t = "str" -> "\"" \o EscapeFrom(obj.s, 1) \o "\""
      [] obj.t = "list" ->
            IF Len(obj.items) = 0 THEN "[]"
            ELSE "[" \o DumpsItems(obj.items, 1, level + 1)
                     \o "\n" \o Spaces(2 * level) \o "]"
      [] obj.t = "dict" ->
            IF Len(obj.pairs) = 0 THEN "{}"
            ELSE "{" \o DumpsPairs(obj.pairs, 1, level + 1)
                     \o "\n" \o Spaces(2 * level) \o "}"

_json_dumps(obj) == Dumps(obj, 0)

(***************************************************************************)
(* The pygments 'json' lexer, for the text json.dumps produces, and the    *)
(* formatter that maps each token type to a display attribute.             *)
(***************************************************************************)
IsSpace(ch) == ch \in {" ", "\n", "\t"}
IsDigit(ch) == ch \in {"0", "1", "2", "3", "4", "5", "6", "7", "8", "9"}
IsNumChar(ch) == IsDigit(ch) \/ ch \in {"-", "+", ".", "e", "E"}
IsPunct(ch) == ch \in {"{", "}", "[", "]", ",", ":"}
IsAlpha(ch) == ch \in {"t", "r", "u", "e", "f", "a", "l", "s", "n"}
CharAt(s, i) == IF i <= Len(s) THEN SubSeq(s, i, i) ELSE ""

\* First position at or after i whose character does not satisfy the class.
RECURSIVE SkipSpace(_, _)
SkipSpace(s, i) ==
    IF i <= Len(s) /\ IsSpace(CharAt(s, i)) THEN SkipSpace(s, i + 1) ELSE i
RECURSIVE SkipNum(_, _)
SkipNum(s, i) ==
    IF i <= Len(s) /\ IsNumChar(CharAt(s, i)) THEN SkipNum(s, i + 1) ELSE i
RECURSIVE SkipAlpha(_, _)
SkipAlpha(s, i) ==
    IF i <= Len(s) /\ IsAlpha(CharAt(s, i)) THEN SkipAlpha(s, i + 1) ELSE i
\* Position just after the closing quote of the string literal opened
\* before position i.
RECURSIVE SkipString(_, _)
SkipString(s, i) ==
    IF i > Len(s) THEN i
    ELSE IF CharAt(s, i) = "\\" THEN SkipString(s, i + 2)
    ELSE IF CharAt(s, i) = "\"" THEN i + 1
    ELSE SkipString(s, i + 1)

RECURSIVE LexFrom(_, _)
LexFrom(s, i) ==
    IF i > Len(s) THEN << >>
    ELSE LET ch == CharAt(s, i)
             j == CASE IsSpace(ch) -> SkipSpace(s, i)
                    [] ch = "\"" -> SkipString(s, i + 1)
                    [] IsDigit(ch) \/ ch = "-" -> SkipNum(s, i)
                    [] IsAlpha(ch) -> SkipAlpha(s, i)
                    [] OTHER -> i + 1
             text == SubSeq(s, i, j - 1)
             isFloat == \E k \in i..(j - 1) : CharAt(s, k) \in {".", "e", "E"}
             type == CASE IsSpace(ch) -> "Token.Text"
                       [] ch = "\"" ->
                            IF CharAt(s, SkipSpace(s, j)) = ":"
                            THEN "Token.Name.Tag"
                            ELSE "Token.Literal.String.Double"
                       [] IsDigit(ch) \/ ch = "-" ->
                            IF isFloat THEN "Token.Literal.Number.Float"
                            ELSE "Token.Literal.Number.Integer"
                       [] IsAlpha(ch) -> "Token.Keyword.Constant"
                       [] IsPunct(ch) -> "Token.Punctuation"
                       [] OTHER -> "Token.Error"
         IN  << <<type, text>> >> \o LexFrom(s, j)

\* Lexer.get_tokens: the text is lexed with a final newline ensured.
get_tokens(text) ==
    LexFrom(IF Len(text) > 0 /\ CharAt(text, Len(text)) = "\n"
            THEN text ELSE text \o "\n", 1)

\* ConsoleJSONFormatter.TOKEN_TYPES: token type -> foreground colour of the
\* urwid.AttrSpec (the background is always 'default').
TOKEN_TYPES ==
    [tt \in {"Token.Literal.String.Double", "Token.Literal.Number.Integer",
             "Token.Literal.Number.Float", "Token.Keyword.Constant",
             "Token.Punctuation", "Token.Text", "Token.Name.Tag"} |->
        CASE tt = "Token.Literal.String.Double" -> "dark green"
          [] tt = "Token.Literal.Number.Integer" -> "dark blue"
          [] tt = "Token.Literal.Number.Float" -> "dark blue"
          [] tt = "Token.Keyword.Constant" -> "light blue"
          [] tt = "Token.Punctuation" -> "light blue"
          [] tt = "Token.Text" -> "white"
          [] tt = "Token.Name.Tag" -> "white"]

\* DEFAULT_COLOR is written with a trailing comma: a 1-tuple holding the spec.
DEFAULT_COLOR == <<"light blue">>

generate_colors(tokens) ==
    [k \in 1..Len(tokens) |->
        << IF tokens[k][1] \in DOMAIN TOKEN_TYPES
           THEN TOKEN_TYPES[tokens[k][1]] ELSE DEFAULT_COLOR,
           tokens[k][2] >>]

_create_colorized_json(json_string) == generate_colors(get_tokens(json_string))

(***************************************************************************)
(* The JMESPath engine behind jmespath.compile(text).search(doc, options), *)
(* for the expression texts the session types.  compile parses the text    *)
(* into an expression tree or raises; search interprets the tree on the    *)
(* document and raises on a function argument of the wrong type.           *)
(***************************************************************************)
Field(name) == [k |-> "field", name |-> name]
SubExpr(l, r) == [k |-> "sub", l |-> l, r |-> r]
Index(l, i) == [k |-> "index", l |-> l, i |-> i]
AbsCall(arg) == [k |-> "abs", arg |-> arg]
ParseError == [k |-> "error"]

\* Every text the session can type, in the order the bound admits them.
AllTexts == << "", "a", "c.e", "z", "c.", "abs(a)", "e", "b[1]", "c.e[1]", "b" >>
NumTexts == 8
Texts == {AllTexts[i] : i \in 1..(IF NumTexts < Len(AllTexts) THEN NumTexts ELSE Len(AllTexts))}

compile(text) ==
    CASE text = "a" -> Field("a")
      [] text = "b" -> Field("b")
      [] text = "e" -> Field("e")
      [] text = "z" -> Field("z")
      [] text = "c.e" -> SubExpr(Field("c"), Field("e"))
      [] text = "c.e[1]" -> Index(SubExpr(Field("c"), Field("e")), 1)
      [] text = "b[1]" -> Index(Field("b"), 1)
      [] text = "abs(a)" -> AbsCall(Field("a"))
      [] OTHER -> ParseError    \* "c." (incomplete) and "" do not parse

Raised == [raised |-> TRUE]
Returned(v) == [raised |-> FALSE, result |-> v]

RECURSIVE Lookup(_, _, _)
Lookup(pairs, name, i) ==
    IF i > Len(pairs) THEN None
    ELSE IF pairs[i][1] = name THEN pairs[i][2]
    ELSE Lookup(pairs, name, i + 1)

RECURSIVE Interpret(_, _)
Interpret(ast, value) ==
    CASE ast.k = "field" ->
            Returned(IF value.t = "dict" THEN Lookup(value.pairs, ast.name, 1)
                     ELSE None)
      [] ast.k = "sub" ->
            LET l == Interpret(ast.l, value)
            IN  IF l.raised THEN Raised
                ELSE IF l.result = None THEN Returned(None)
                ELSE Interpret(ast.r, l.result)
      [] ast.k = "index" ->
            LET l == Interpret(ast.l, value)
            IN  IF l.raised THEN Raised
                ELSE IF l.result.t = "list" /\ ast.i < Len(l.result.items)
                THEN Returned(l.result.items[ast.i + 1])
                ELSE Returned(None)
      [] ast.k = "abs" ->
            LET a == Interpret(ast.arg, value)
            IN  IF a.raised THEN Raised
                ELSE IF a.result.t = "int"
                THEN Returned(PyInt(IF a.result.n < 0 THEN 0 - a.result.n
                                    ELSE a.result.n))
                ELSE IF a.result.t = "float" THEN Returned(a.result)
                ELSE Raised

\* jmespath.compile(text).search(parsed_json, options)
jmespath_search(text, parsed_json) ==
    LET ast == compile(text)
    IN  IF ast = ParseError THEN Raised ELSE Interpret(ast, parsed_json)

(***************************************************************************)
(* Input documents.  The bytes of a file or a pipe are one of a few texts; *)
(* json.load / json.loads(bytes.decode()) parse them or raise ValueError   *)
(* (json.JSONDecodeError and UnicodeDecodeError are both ValueErrors).     *)
(***************************************************************************)
VALID_TEXT == "{\"a\": 1, \"b\": [1, 2, 3]}"
TRUNCATED_TEXT == "{\"a\": "
UNDECODABLE_BYTES == "<0xff>"
Contents == {VALID_TEXT, TRUNCATED_TEXT, UNDECODABLE_BYTES}

ValueError == [raised |-> TRUE, exc |-> "ValueError"]
json_loads(text) ==
    IF text = VALID_TEXT
    THEN Returned(PyDict(<< <<"a", PyInt(1)>>,
                            <<"b", PyList(<<PyInt(1), PyInt(2), PyInt(3)>>)>> >>))
    ELSE ValueError

\* The most bytes one os.read delivers when the writer has not finished.
PipeChunk == 12

VARIABLES
    filename,        \* args.input-json: None or a path
    output_file,     \* args.output_file: None or a path
    pc,              \* where main() is
    fd0,             \* what descriptor 0 is bound to: "tty", "pipe", "closed"
    stdin_dup,       \* what the descriptor os.dup returned is bound to
    pipe_left,       \* bytes of the pipe not yet read
    buf,             \* _load_json_from_pipe: bytes collected so far
    paths,           \* the branches of _load_input_json that were entered
    parsed_json,     \* JMESPathDisplay.parsed_json
    input_expr,      \* edit_text of the expression field
    jmespath_result, \* markup shown in the result pane (<<>> is the empty text)
    footer,          \* text of the status line
    output_mode,     \* JMESPathDisplay.output_mode (args.output_mode at first)
    last_result,     \* JMESPathDisplay.last_result
    last_expression, \* JMESPathDisplay.last_expression
    loop_end,        \* how loop.run() ended: "", "f5" or "interrupt"
    stdout,          \* bytes written to sys.stdout
    stderr,          \* messages written to sys.stderr
    out_file,        \* the output file: whether it was opened, and its content
    ret,             \* <<>> until main returns, then <<exit code>>
    exc,             \* the exception that escaped main, or ""
    typed,           \* history: the most recent non-empty text entered
    good,            \* history: value of the most recent non-null success
    cycle_from,      \* history: the modes the last cycle commands started from
    eof,             \* history: os.read has returned the empty bytes
    tty_opens        \* history: how often the controlling terminal was opened

args == <<filename, output_file>>
handoff == <<eof, tty_opens>>
loader == <<fd0, stdin_dup, pipe_left, buf, paths, parsed_json, handoff>>
display == <<input_expr, jmespath_result, footer, output_mode, last_result,
             last_expression>>
outputs == <<stdout, stderr, out_file, ret, exc>>
history == <<typed, good, cycle_from>>
vars == <<args, pc, loader, display, loop_end, outputs, history>>

INPUT_PATH == "in.json"
OUTPUT_PATH == "out.txt"
NoFile == [opened |-> FALSE, content |-> ""]
EMPTY_TEXT == << >>
ModeSet == {OUTPUT_MODES[i] : i \in 1..Len(OUTPUT_MODES)}

\* main() up to parse_args, and the display as __init__ and _create_view
\* leave it.
Init ==
    /\ filename \in {None, PyStr(INPUT_PATH)}
    /\ output_file \in {None, PyStr(OUTPUT_PATH)}
    /\ output_mode \in ModeSet
    /\ fd0 \in {"tty", "pipe"}
    /\ pc = "load"
    /\ stdin_dup = "none"
    /\ pipe_left = ""
    /\ buf = ""
    /\ paths = {}
    /\ parsed_json = None
    /\ input_expr = ""
    /\ jmespath_result = EMPTY_TEXT
    /\ footer = "Status: "
    /\ last_result = None
    /\ last_expression = None
    /\ loop_end = ""
    /\ stdout = ""
    /\ stderr = << >>
    /\ out_file = NoFile
    /\ ret = << >>
    /\ exc = ""
    /\ typed = None
    /\ good = None
    /\ cycle_from = << >>
    /\ eof = FALSE
    /\ tty_opens = 0

(***************************************************************************)
(* main(): loading the document (lines 243-248).                           *)
(***************************************************************************)
\* The display is constructed on the loaded document and its loop started.
EnterLoop(doc) ==
    /\ parsed_json' = doc
    /\ pc' = "loop"
    /\ UNCHANGED <<display, loop_end, outputs, history>>

\* except ValueError: the diagnostic is written and main returns 1.
ReturnLoadError ==
    /\ stderr' = Append(stderr, "Unable to load the input JSON")
    /\ ret' = <<1>>
    /\ pc' = "done"
    /\ UNCHANGED <<parsed_json, display, loop_end, stdout, out_file, exc, history>>

\* An exception main does not catch leaves main without a return value.
Escape(e) ==
    /\ exc' = e
    /\ pc' = "raised"
    /\ UNCHANGED <<parsed_json, display, loop_end, stdout, stderr, out_file, ret,
                   history>>

\* _load_input_json, filename given: open the file and json.load it.
LoadFile ==
    /\ pc = "load"
    /\ filename # None
    /\ paths' = paths \cup {"file"}
    /\ UNCHANGED <<args, fd0, stdin_dup, pipe_left, buf, handoff>>
    /\ \/ Escape("OSError")                   \* open() fails
       \/ \E content \in Contents :
            LET doc == json_loads(content)
            IN  IF doc.raised THEN ReturnLoadError ELSE EnterLoop(doc.result)

\* _load_input_json, no filename and stdin is a terminal: the sample.
LoadSample ==
    /\ pc = "load"
    /\ filename = None
    /\ fd0 = "tty"
    /\ paths' = paths \cup {"sample"}
    /\ UNCHANGED <<args, fd0, stdin_dup, pipe_left, buf, handoff>>
    /\ EnterLoop(SAMPLE_JSON)

\* PipeDup with the pipe tested before the filename.
PipeDup_before_file ==
    /\ pc = "load"
    /\ fd0 # "tty"
    /\ paths' = paths \cup {"pipe"}
    /\ stdin_dup' = fd0
    /\ pipe_left' \in Contents
    /\ pc' = "pipe_close"
    /\ UNCHANGED <<args, fd0, buf, parsed_json, display, loop_end, outputs,
                   history, handoff>>

\* _load_json_from_pipe, line 193: stdin = os.dup(fd).  The pipe holds one
\* of the contents.
PipeDup ==
    /\ pc = "load"
    /\ filename = None
    /\ fd0 # "tty"
    /\ paths' = paths \cup {"pipe"}
    /\ stdin_dup' = fd0
    /\ pipe_left' \in Contents
    /\ pc' = "pipe_close"
    /\ UNCHANGED <<args, fd0, buf, parsed_json, display, loop_end, outputs,
                   history, handoff>>

\* PipeClose with the os.close(fd) left out.
PipeClose_keeps_fd ==
    /\ pc = "pipe_close"
    /\ pc' = "pipe_open"
    /\ UNCHANGED <<args, fd0, stdin_dup, pipe_left, buf, paths, parsed_json,
                   display, loop_end, outputs, history, handoff>>

\* line 194: os.close(fd)
PipeClose ==
    /\ pc = "pipe_close"
    /\ fd0' = "closed"
    /\ pc' = "pipe_open"
    /\ UNCHANGED <<args, stdin_dup, pipe_left, buf, paths, parsed_json, display,
                   loop_end, outputs, history, handoff>>

\* line 195: os.open(os.ctermid(), os.O_RDONLY) takes the lowest free
\* descriptor, which is 0 when 0 was closed; it raises OSError when the
\* process has no controlling terminal.
PipeOpenTty ==
    /\ pc = "pipe_open"
    /\ UNCHANGED <<args, stdin_dup, pipe_left, buf, paths, eof>>
    /\ \/ /\ fd0' = IF fd0 = "closed" THEN "tty" ELSE fd0
          /\ tty_opens' = tty_opens + 1
          /\ pc' = "pipe_read"
          /\ UNCHANGED <<parsed_json, display, loop_end, outputs, history>>
       \/ /\ UNCHANGED <<fd0, tty_opens>>
          /\ Escape("OSError")

\* PipeRead with the loop left after the first os.read.
PipeRead_one_read ==
    /\ pc = "pipe_read"
    /\ UNCHANGED <<args, fd0, stdin_dup, paths, parsed_json, display, loop_end,
                   outputs, history, tty_opens>>
    /\ pc' = "pipe_parse"
    /\ IF pipe_left = ""
       THEN /\ eof' = TRUE
            /\ UNCHANGED <<pipe_left, buf>>
       ELSE \E n \in {PipeChunk, Len(pipe_left)} :
               /\ n <= Len(pipe_left)
               /\ buf' = buf \o SubSeq(pipe_left, 1, n)
               /\ pipe_left' = SubSeq(pipe_left, n + 1, Len(pipe_left))
               /\ UNCHANGED eof

\* lines 196-200: one os.read of the duplicated descriptor.
PipeRead ==
    /\ pc = "pipe_read"
    /\ UNCHANGED <<args, fd0, stdin_dup, paths, parsed_json, display, loop_end,
                   outputs, history, tty_opens>>
    /\ IF pipe_left = ""
       THEN /\ pc' = "pipe_parse"
            /\ eof' = TRUE
            /\ UNCHANGED <<pipe_left, buf>>
       ELSE \E n \in {PipeChunk, Len(pipe_left)} :
               /\ n <= Len(pipe_left)
               /\ buf' = buf \o SubSeq(pipe_left, 1, n)
               /\ pipe_left' = SubSeq(pipe_left, n + 1, Len(pipe_left))
               /\ UNCHANGED <<pc, eof>>

\* lines 201-204: json.loads(buf.read().decode())
PipeParse ==
    /\ pc = "pipe_parse"
    /\ UNCHANGED <<args, fd0, stdin_dup, pipe_left, buf, paths, handoff>>
    /\ LET doc == json_loads(buf)
       IN  IF doc.raised THEN ReturnLoadError ELSE EnterLoop(doc.result)

(***************************************************************************)
(* JMESPathDisplay: the handlers the main loop dispatches.                 *)
(***************************************************************************)
\* The attributes of the display object a handler reads or writes, and the
\* exception that leaves the handler ("" when it returns).
Self ==
    [exc |-> "",
     parsed_json |-> parsed_json,
     jmespath_result |-> jmespath_result,
     footer |-> footer,
     output_mode |-> output_mode,
     last_result |-> last_result,
     last_expression |-> last_expression]

\* _on_edit with a handler that blanks the pane when the evaluation raises.
_on_edit_error_clears(self, text) ==
    LET entered == [self EXCEPT !.last_expression = PyStr(text)]
        outcome == jmespath_search(text, self.parsed_json)
    IN  IF text = "" \/ outcome.raised
        THEN [entered EXCEPT !.jmespath_result = EMPTY_TEXT]
        ELSE LET ok == [entered EXCEPT !.footer = "Status: success"]
             IN  IF outcome.result # None
                 THEN [ok EXCEPT
                         !.last_result = outcome.result,
                         !.jmespath_result =
                             _create_colorized_json(_json_dumps(outcome.result))]
                 ELSE ok

\* _on_edit without the 'result is not None' test.
_on_edit_no_null_check(self, text) ==
    LET entered == [self EXCEPT !.last_expression = PyStr(text)]
        outcome == jmespath_search(text, self.parsed_json)
    IN  IF text = ""
        THEN [entered EXCEPT !.jmespath_result = EMPTY_TEXT]
        ELSE IF outcome.raised THEN entered
        ELSE [entered EXCEPT
                !.footer = "Status: success",
                !.last_result = outcome.result,
                !.jmespath_result =
                    _create_colorized_json(_json_dumps(outcome.result))]

\* _on_edit rendering self.last_result before it is assigned.
_on_edit_stale_render(self, text) ==
    LET entered == [self EXCEPT !.last_expression = PyStr(text)]
        outcome == jmespath_search(text, self.parsed_json)
    IN  IF text = ""
        THEN [entered EXCEPT !.jmespath_result = EMPTY_TEXT]
        ELSE IF outcome.raised THEN entered
        ELSE LET ok == [entered EXCEPT !.footer = "Status: success"]
             IN  IF outcome.result # None
                 THEN [ok EXCEPT
                         !.last_result = outcome.result,
                         !.jmespath_result =
                             _create_colorized_json(_json_dumps(self.last_result))]
                 ELSE ok

\* _on_edit forgetting the last result when the text becomes empty.
_on_edit_empty_resets_result(self, text) ==
    LET entered == [self EXCEPT !.last_expression = PyStr(text)]
        outcome == jmespath_search(text, self.parsed_json)
    IN  IF text = ""
        THEN [entered EXCEPT !.jmespath_result = EMPTY_TEXT,
                             !.last_result = None]
        ELSE IF outcome.raised THEN entered
        ELSE LET ok == [entered EXCEPT !.footer = "Status: success"]
             IN  IF outcome.result # None
                 THEN [ok EXCEPT
                         !.last_result = outcome.result,
                         !.jmespath_result =
                             _create_colorized_json(_json_dumps(outcome.result))]
                 ELSE ok

\* _on_edit without the try/except around the evaluation.
_on_edit_no_try(self, text) ==
    LET entered == [self EXCEPT !.last_expression = PyStr(text)]
        outcome == jmespath_search(text, self.parsed_json)
    IN  IF text = ""
        THEN [entered EXCEPT !.jmespath_result = EMPTY_TEXT]
        ELSE IF outcome.raised THEN [entered EXCEPT !.exc = "JMESPathError"]
        ELSE LET ok == [entered EXCEPT !.footer = "Status: success"]
             IN  IF outcome.result # None
                 THEN [ok EXCEPT
                         !.last_result = outcome.result,
                         !.jmespath_result =
                             _create_colorized_json(_json_dumps(outcome.result))]
                 ELSE ok

\* _on_edit keeping the error of a failed evaluation as the last result.
_on_edit_stores_error(self, text) ==
    LET entered == [self EXCEPT !.last_expression = PyStr(text)]
        outcome == jmespath_search(text, self.parsed_json)
    IN  IF text = ""
        THEN [entered EXCEPT !.jmespath_result = EMPTY_TEXT]
        ELSE IF outcome.raised
        THEN [entered EXCEPT !.last_result = PyStr("JMESPathError")]
        ELSE LET ok == [entered EXCEPT !.footer = "Status: success"]
             IN  IF outcome.result # None
                 THEN [ok EXCEPT
                         !.last_result = outcome.result,
                         !.jmespath_result =
                             _create_colorized_json(_json_dumps(outcome.result))]
                 ELSE ok

\* _on_edit setting the status line under 'if result is not None' only.
_on_edit_status_on_value(self, text) ==
    LET entered == [self EXCEPT !.last_expression = PyStr(text)]
        outcome == jmespath_search(text, self.parsed_json)
    IN  IF text = ""
        THEN [entered EXCEPT !.jmespath_result = EMPTY_TEXT]
        ELSE IF outcome.raised \/ outcome.result = None THEN entered
        ELSE [entered EXCEPT
                !.footer = "Status: success",
                !.last_result = outcome.result,
                !.jmespath_result =
                    _create_colorized_json(_json_dumps(outcome.result))]

\* _on_edit showing the result without assigning last_result.
_on_edit_render_only(self, text) ==
    LET entered == [self EXCEPT !.last_expression = PyStr(text)]
        outcome == jmespath_search(text, self.parsed_json)
    IN  IF text = ""
        THEN [entered EXCEPT !.jmespath_result = EMPTY_TEXT]
        ELSE IF outcome.raised THEN entered
        ELSE LET ok == [entered EXCEPT !.footer = "Status: success"]
             IN  IF outcome.result # None
                 THEN [ok EXCEPT
                         !.jmespath_result =
                             _create_colorized_json(_json_dumps(outcome.result))]
                 ELSE ok

\* _on_edit returning on an empty text without clearing the pane.
_on_edit_empty_keeps_pane(self, text) ==
    LET entered == [self EXCEPT !.last_expression = PyStr(text)]
        outcome == jmespath_search(text, self.parsed_json)
    IN  IF text = "" \/ outcome.raised THEN entered
        ELSE LET ok == [entered EXCEPT !.footer = "Status: success"]
             IN  IF outcome.result # None
                 THEN [ok EXCEPT
                         !.last_result = outcome.result,
                         !.jmespath_result =
                             _create_colorized_json(_json_dumps(outcome.result))]
                 ELSE ok

\* _on_edit(widget, text): the object after the handler has run.
_on_edit(self, text) ==
    LET entered == [self EXCEPT !.last_expression = PyStr(text)]
    IN  IF text = ""
        THEN [entered EXCEPT !.jmespath_result = EMPTY_TEXT]
        ELSE LET outcome == jmespath_search(text, self.parsed_json)
             IN  IF outcome.raised
                 THEN entered                          \* except Exception: pass
                 ELSE LET ok == [entered EXCEPT !.footer = "Status: success"]
                      IN  IF outcome.result # None
                          THEN [ok EXCEPT
                                  !.last_result = outcome.result,
                                  !.jmespath_result =
                                      _create_colorized_json(
                                          _json_dumps(outcome.result))]
                          ELSE ok

\* OUTPUT_MODES.index(mode), 0-based
ModeIndex(mode) == (CHOOSE i \in 1..Len(OUTPUT_MODES) : OUTPUT_MODES[i] = mode) - 1

\* new_mode stepping by two.
new_mode_skips(mode) == OUTPUT_MODES[((ModeIndex(mode) + 2) % Len(OUTPUT_MODES)) + 1]

\* unhandled_input, 'ctrl p': the mode after the current one
new_mode(mode) == OUTPUT_MODES[((ModeIndex(mode) + 1) % Len(OUTPUT_MODES)) + 1]

\* The display after a handler; an exception that leaves the handler leaves
\* loop.run() and main() as well (main catches KeyboardInterrupt only).
Install(self) ==
    /\ pc' = IF self.exc = "" THEN pc ELSE "raised"
    /\ exc' = self.exc
    /\ jmespath_result' = self.jmespath_result
    /\ footer' = self.footer
    /\ output_mode' = self.output_mode
    /\ last_result' = self.last_result
    /\ last_expression' = self.last_expression

\* What the session history records of an edit to text.
Record(text) ==
    LET outcome == jmespath_search(text, parsed_json)
    IN  /\ typed' = IF text # "" THEN PyStr(text) ELSE typed
        /\ good' = IF text # "" /\ ~outcome.raised /\ outcome.result # None
                   THEN outcome.result ELSE good
        /\ UNCHANGED cycle_from

\* A keystroke in the expression field changes its text; the Edit widget
\* emits 'change' with the new text, which runs _on_edit (line 99).
EditChanged(text) ==
    /\ pc = "loop"
    /\ text # input_expr
    /\ input_expr' = text
    /\ Install(_on_edit(Self, text))
    /\ Record(text)
    /\ UNCHANGED <<args, loader, loop_end, stdout, stderr, out_file, ret>>

\* ClearCommand as it would be if the assignment did not run _on_edit.
ClearCommand_no_signal ==
    /\ pc = "loop"
    /\ input_expr' = ""
    /\ jmespath_result' = EMPTY_TEXT
    /\ UNCHANGED <<args, pc, loader, footer, output_mode, last_result,
                   last_expression, loop_end, outputs, history>>

\* unhandled_input('ctrl ]'): assigning edit_text emits 'change' with '' and
\* so runs _on_edit; then the result pane is cleared.
ClearCommand ==
    /\ pc = "loop"
    /\ input_expr' = ""
    /\ Install([_on_edit(Self, "") EXCEPT !.jmespath_result = EMPTY_TEXT])
    /\ Record("")
    /\ UNCHANGED <<args, loader, loop_end, stdout, stderr, out_file, ret>>

\* CycleOutputMode clearing the result pane as well.
CycleOutputMode_clears ==
    /\ pc = "loop"
    /\ output_mode' = new_mode(output_mode)
    /\ footer' = "Status: output mode set to " \o new_mode(output_mode)
    /\ jmespath_result' = EMPTY_TEXT
    /\ cycle_from' =
          LET all == Append(cycle_from, output_mode)
          IN  IF Len(all) > Len(OUTPUT_MODES) THEN Tail(all) ELSE all
    /\ UNCHANGED <<args, pc, loader, input_expr, last_result,
                   last_expression, loop_end, outputs, typed, good>>

\* unhandled_input('ctrl p')
CycleOutputMode ==
    /\ pc = "loop"
    /\ output_mode' = new_mode(output_mode)
    /\ footer' = "Status: output mode set to " \o new_mode(output_mode)
    /\ cycle_from' =
          LET all == Append(cycle_from, output_mode)
          IN  IF Len(all) > Len(OUTPUT_MODES) THEN Tail(all) ELSE all
    /\ UNCHANGED <<args, pc, loader, input_expr, jmespath_result, last_result,
                   last_expression, loop_end, outputs, typed, good>>

\* unhandled_input('f5'): urwid.ExitMainLoop ends loop.run()
ExitCommand ==
    /\ pc = "loop"
    /\ pc' = "finalize"
    /\ loop_end' = "f5"
    /\ UNCHANGED <<args, loader, display, outputs, history>>

\* Interrupt without the try/except of lines 252-255.
Interrupt_escapes ==
    /\ pc = "loop"
    /\ pc' = "raised"
    /\ exc' = "KeyboardInterrupt"
    /\ loop_end' = "interrupt"
    /\ UNCHANGED <<args, loader, display, stdout, stderr, out_file, ret, history>>

\* main(), lines 252-255: a KeyboardInterrupt out of the loop is passed over
Interrupt ==
    /\ pc = "loop"
    /\ pc' = "finalize"
    /\ loop_end' = "interrupt"
    /\ UNCHANGED <<args, loader, display, outputs, history>>

(***************************************************************************)
(* display_output(filename), and main's return 0.                          *)
(***************************************************************************)
\* OutputText with the expression branch taken in every mode but 'result'.
OutputText_quiet_falls_through(self) ==
    IF self.output_mode = "result" /\ self.last_result # None
    THEN <<_json_dumps(self.last_result)>>
    ELSE IF self.output_mode # "result" /\ self.last_expression # None
    THEN <<self.last_expression.s>>
    ELSE << >>

\* Lines 170-178: <<result>> to write, or << >> when the method returns early.
OutputText(self) ==
    IF self.output_mode = "result" /\ self.last_result # None
    THEN <<_json_dumps(self.last_result)>>
    ELSE IF self.output_mode = "expression" /\ self.last_expression # None
    THEN <<self.last_expression.s>>
    ELSE << >>

display_output ==
    /\ pc = "finalize"
    /\ UNCHANGED <<args, loader, display, loop_end, stderr, history>>
    /\ LET out == OutputText(Self)
       IN  IF out = << >>
           THEN /\ ret' = <<0>>
                /\ pc' = "done"
                /\ UNCHANGED <<stdout, out_file, exc>>
           ELSE IF output_file # None
           THEN \/ /\ out_file' = [opened |-> TRUE, content |-> out[1]]
                   /\ ret' = <<0>>
                   /\ pc' = "done"
                   /\ UNCHANGED <<stdout, exc>>
                \/ /\ exc' = "OSError"          \* open(filename, 'w') fails
                   /\ pc' = "raised"
                   /\ UNCHANGED <<stdout, out_file, ret>>
           ELSE /\ stdout' = stdout \o out[1]
                /\ ret' = <<0>>
                /\ pc' = "done"
                /\ UNCHANGED <<out_file, exc>>

Next ==
    \/ LoadFile
    \/ LoadSample
    \/ PipeDup
    \/ PipeClose
    \/ PipeOpenTty
    \/ PipeRead
    \/ PipeParse
    \/ \E text \in Texts : EditChanged(text)
    \/ ClearCommand
    \/ CycleOutputMode
    \/ ExitCommand
    \/ Interrupt
    \/ display_output

Spec == Init /\ [][Next]_vars

(***************************************************************************)
(* Properties.                                                             *)
(***************************************************************************)
Fails(text) == jmespath_search(text, parsed_json).raised
Succeeds(text) == ~jmespath_search(text, parsed_json).raised
ValueOf(text) == jmespath_search(text, parsed_json).result
NonEmptyTexts == Texts \ {""}

\* C1: an edit to a non-empty text whose evaluation fails (it does not
\* compile, or it raises while it is evaluated) leaves the result pane, the
\* last result, the status line and the output mode as they were.
C1_FailedEditKeepsDisplay ==
    [][\A text \in NonEmptyTexts :
          (Fails(text) /\ EditChanged(text)) =>
              UNCHANGED <<jmespath_result, last_result, footer, output_mode>>]_vars

\* A failing text is in the field while an earlier result is still shown
\* under the success status.
C1_Witness ==
    /\ pc = "loop"
    /\ input_expr # "" /\ Fails(input_expr)
    /\ last_expression = PyStr(input_expr)
    /\ jmespath_result # EMPTY_TEXT
    /\ last_result # None
    /\ footer = "Status: success"

\* C2: an edit to a non-empty text that evaluates to null leaves the last
\* result and the result pane as they were.
C2_NullEditKeepsResult ==
    [][\A text \in NonEmptyTexts :
          (Succeeds(text) /\ ValueOf(text) = None /\ EditChanged(text)) =>
              UNCHANGED <<last_result, jmespath_result>>]_vars

\* A text evaluating to null is in the field while an earlier result is
\* still shown.
C2_Witness ==
    /\ pc = "loop"
    /\ input_expr # "" /\ Succeeds(input_expr) /\ ValueOf(input_expr) = None
    /\ last_expression = PyStr(input_expr)
    /\ jmespath_result # EMPTY_TEXT
    /\ last_result # None

\* C3: after an edit to a non-empty text that evaluates to a value v other
\* than null, the last result is v, the pane shows the coloured tokens of
\* the serialization of v, and the status line reports success.
C3_SuccessfulEditShowsValue ==
    [][\A text \in NonEmptyTexts :
          (Succeeds(text) /\ ValueOf(text) # None /\ EditChanged(text)) =>
              /\ last_result' = ValueOf(text)
              /\ jmespath_result' =
                    generate_colors(get_tokens(Dumps(ValueOf(text), 0)))
              /\ footer' = "Status: success"]_vars

\* "a" was typed on the sample document after another result was shown:
\* the pane is the one string token of "foo" and the newline the lexer adds.
C3_Witness ==
    /\ pc = "loop"
    /\ parsed_json = SAMPLE_JSON
    /\ input_expr = "a"
    /\ output_mode = "quiet"
    /\ last_result = PyStr("foo")
    /\ jmespath_result = << <<"dark green", "\"foo\"">>, <<"white", "\n">> >>
    /\ footer = "Status: success"

\* C4: an edit event whose new text is empty (the field edited to empty, or
\* the clear command) empties the result pane and leaves the last result
\* and the last expression as they were.
C4_EmptyEditKeepsExpression ==
    [][(EditChanged("") \/ ClearCommand) =>
          /\ jmespath_result' = EMPTY_TEXT
          /\ UNCHANGED <<last_result, last_expression>>]_vars

\* What the finalizer emitted is exactly text, at the configured destination.
Emitted(text) ==
    IF output_file = None
    THEN stdout = text /\ out_file = NoFile
    ELSE out_file = [opened |-> TRUE, content |-> text] /\ stdout = ""
EmittedNothing == stdout = "" /\ out_file = NoFile

\* C5: when main returns after the loop with the output mode 'expression',
\* it has emitted the most recent non-empty text entered in the session,
\* and nothing if none was entered.
C5_ExpressionModeEmitsLastTyped ==
    (pc = "done" /\ loop_end # "" /\ output_mode = "expression") =>
        IF typed = None THEN EmittedNothing ELSE Emitted(typed.s)

\* C6: when main returns after the loop with the output mode 'result', it
\* has emitted the serialization of the value of the most recent edit that
\* evaluated to a value other than null, and nothing if there was none.
C6_ResultModeEmitsLastGood ==
    (pc = "done" /\ loop_end # "" /\ output_mode = "result") =>
        IF good = None THEN EmittedNothing ELSE Emitted(Dumps(good, 0))

\* Result mode at exit, after a successful edit was followed by an edit
\* that did not produce a value.
C6_Witness ==
    /\ pc = "done" /\ loop_end # "" /\ output_mode = "result"
    /\ good # None
    /\ typed # None /\ (Fails(typed.s) \/ ValueOf(typed.s) = None)
    /\ input_expr = ""
    /\ Emitted(Dumps(good, 0))

\* C7: once the loop has ended in the output mode 'quiet', main returns
\* with nothing written to standard output and the output file not opened.
C7_QuietEmitsNothing ==
    (loop_end # "" /\ pc # "finalize" /\ output_mode = "quiet") =>
        /\ pc = "done" /\ exc = ""
        /\ stdout = ""
        /\ out_file = NoFile

\* Quiet mode at exit with a result, an expression and an output file set.
C7_Witness ==
    /\ pc = "done" /\ loop_end # "" /\ output_mode = "quiet"
    /\ last_result # None
    /\ last_expression # None /\ last_expression # PyStr("")
    /\ output_file # None

\* The cyclic successor the mode is said to have.
Successor(mode) ==
    CASE mode = "result" -> "expression"
      [] mode = "expression" -> "quiet"
      [] mode = "quiet" -> "result"

\* C8: the mode is always one of result, expression, quiet; a cycle command
\* moves it to the cyclic successor of the mode it started from; and after
\* three cycle commands it is the mode the first of them started from.
C8_CycleReturnsAfterThree ==
    /\ output_mode \in {"result", "expression", "quiet"}
    /\ Len(cycle_from) >= 1 =>
          output_mode = Successor(cycle_from[Len(cycle_from)])
    /\ \A k \in 1..(Len(cycle_from) - 1) :
          cycle_from[k + 1] = Successor(cycle_from[k])
    /\ Len(cycle_from) = 3 => output_mode = cycle_from[1]

\* Three cycle commands have been applied.
C8_Witness ==
    /\ pc = "loop"
    /\ Len(cycle_from) = 3
    /\ output_mode = cycle_from[1]

\* main is over and no document was loaded, the descriptor handoff of the
\* pipe path having gone through.
DocumentNotLoaded ==
    /\ pc \in {"done", "raised"}
    /\ parsed_json = None
    /\ fd0 # "closed"

\* C9: when the document cannot be loaded (the file cannot be opened, or the
\* file or the piped bytes do not parse), main writes a diagnostic to the
\* error stream and returns 1, without the loop or the finalizer running.
C9_LoadFailureReturnsOne ==
    DocumentNotLoaded =>
        /\ ret = <<1>>
        /\ Len(stderr) = 1
        /\ loop_end = ""
        /\ EmittedNothing

\* C10: the loader takes exactly one branch: the file when a filename is
\* given, and then the standard input is neither read nor rebound, even if
\* it is a pipe; otherwise the pipe when the standard input is not a
\* terminal; otherwise the built-in sample document.
C10_LoaderPriority ==
    /\ [](pc # "load" => Cardinality(paths) = 1)
    /\ [][pc = "load" =>
            paths' = IF filename # None THEN {"file"}
                     ELSE IF fd0 # "tty" THEN {"pipe"}
                     ELSE {"sample"}]_vars
    /\ [][pc # "load" => UNCHANGED paths]_vars
    /\ [][filename # None => UNCHANGED <<fd0, stdin_dup, pipe_left, buf>>]_vars
    /\ [](pc = "loop" =>
            /\ paths = {"sample"} => parsed_json = SAMPLE_JSON
            /\ paths = {"pipe"} =>
                  /\ pipe_left = ""
                  /\ parsed_json = json_loads(buf).result)

\* A file was loaded although the standard input is a pipe, which is still
\* bound to descriptor 0 and unread.
C10_Witness ==
    /\ pc = "loop"
    /\ filename # None
    /\ paths = {"file"}
    /\ fd0 = "pipe"
    /\ buf = ""
    /\ parsed_json # None

\* The pipe branch was taken and _load_json_from_pipe is no longer running:
\* it returned, or an exception left it.
PipeLoaderLeft ==
    /\ paths = {"pipe"}
    /\ pc \in {"loop", "finalize", "done", "raised"}

FinalOutput ==
    CASE output_mode = "result" /\ last_result # None ->
            Emitted(Dumps(last_result, 0))
      [] output_mode = "expression" /\ last_expression # None ->
            Emitted(last_expression.s)
      [] OTHER -> EmittedNothing

\* C12: when the loop is ended by a user interrupt, the display is left as
\* it was at that moment, the finalizer runs on it and main returns 0, as
\* when the loop is ended by the exit key; in both cases the only other way
\* out of main is the output file failing to open.
C12_InterruptRunsFinalizer ==
    /\ [][loop_end' = "interrupt" => UNCHANGED display]_vars
    /\ [](loop_end \in {"interrupt", "f5"} =>
            /\ pc \in {"finalize", "done", "raised"}
            /\ pc = "done" => (ret = <<0>> /\ FinalOutput)
            /\ pc = "raised" =>
                  /\ exc = "OSError" /\ output_file # None
                  /\ ret = << >> /\ EmittedNothing)

\* The loop was interrupted with an expression in the field, and main has
\* returned 0 with the last result written to the output file.
C12_Witness ==
    /\ loop_end = "interrupt"
    /\ pc = "done" /\ ret = <<0>>
    /\ output_mode = "result"
    /\ input_expr # "" /\ last_result # None
    /\ out_file = [opened |-> TRUE, content |-> Dumps(last_result, 0)]

C15_CycleTouchesModeAndStatusOnly ==
    [][/\ CycleOutputMode =>
            /\ output_mode' # output_mode
            /\ footer' = "Status: output mode set to " \o output_mode'
            /\ UNCHANGED <<last_result, last_expression, input_expr,
                           jmespath_result>>
       /\ ((\E text \in Texts : EditChanged(text)) \/ ClearCommand) =>
            UNCHANGED output_mode]_vars

\* The mode was cycled to quiet while a result was shown for the text in
\* the field.
C15_Witness ==
    /\ pc = "loop"
    /\ footer = "Status: output mode set to quiet"
    /\ output_mode = "quiet"
    /\ input_expr # "" /\ last_expression = PyStr(input_expr)
    /\ jmespath_result # EMPTY_TEXT
    /\ last_result # None

\* C16: the last result is None unless an edit of the session has evaluated
\* successfully; when it is not None it is the value of such an evaluation,
\* a JSON value the engine returns for an entered text on the document,
\* never the outcome of a failed evaluation.
C16_LastResultIsASuccessValue ==
    /\ last_result = good
    /\ last_result # None =>
          /\ typed # None
          /\ \E text \in NonEmptyTexts :
                Succeeds(text) /\ ValueOf(text) = last_result

\* A last result is kept while the text in the field fails to evaluate and
\* nothing is shown.
C16_Witness ==
    /\ pc = "loop"
    /\ last_result # None
    /\ input_expr # "" /\ Fails(input_expr)
    /\ jmespath_result = EMPTY_TEXT

\* C17: the clear command leaves the last result, the last expression, the
\* output mode, the status line and the result pane as an edit to the empty
\* text would from the same state, and the expression field empty.
C17_ClearIsEmptyEdit ==
    [][ClearCommand =>
          /\ input_expr' = ""
          /\ input_expr # "" => EditChanged("")
          /\ LET edited == _on_edit(Self, "")
             IN  /\ last_result' = edited.last_result
                 /\ last_expression' = edited.last_expression
                 /\ output_mode' = edited.output_mode
                 /\ footer' = edited.footer
                 /\ jmespath_result' = edited.jmespath_result]_vars

\* The clear command was given in a session in which no text was entered:
\* the last expression is the empty text.
C17_Witness ==
    /\ pc = "loop"
    /\ typed = None
    /\ input_expr = ""
    /\ last_expression = PyStr("")
    /\ jmespath_result = EMPTY_TEXT

\* C18: an edit to a non-empty text sets the status line to the success
\* message when the evaluation succeeds, with null or with another value,
\* and leaves the status line as it was when the evaluation fails.
C18_StatusFollowsSuccess ==
    [][\A text \in NonEmptyTexts :
          EditChanged(text) =>
              /\ Succeeds(text) => footer' = "Status: success"
              /\ Fails(text) => footer' = footer]_vars

\* The status line reports success although only null was ever produced:
\* no result is kept and none is shown.
C18_Witness ==
    /\ pc = "loop"
    /\ input_expr # "" /\ Succeeds(input_expr) /\ ValueOf(input_expr) = None
    /\ footer = "Status: success"
    /\ last_result = None
    /\ jmespath_result = EMPTY_TEXT

\* C19: the result pane is empty or shows the rendering of the current last
\* result, the value the finalizer emits in result mode.
C19_PaneShowsLastResult ==
    \/ jmespath_result = EMPTY_TEXT
    \/ /\ last_result # None
       /\ jmespath_result = generate_colors(get_tokens(Dumps(last_result, 0)))

\* The pane shows the last result while the text in the field evaluates to
\* null and the mode was cycled.
C19_Witness ==
    /\ pc = "loop"
    /\ jmespath_result # EMPTY_TEXT
    /\ jmespath_result = generate_colors(get_tokens(Dumps(last_result, 0)))
    /\ input_expr # "" /\ Succeeds(input_expr) /\ ValueOf(input_expr) = None
    /\ Len(cycle_from) >= 1

\* C20: when the expression text is empty the result pane is empty.
C20_EmptyTextEmptyPane ==
    input_expr = "" => jmespath_result = EMPTY_TEXT

\* The field was emptied after a result had been shown.
C20_Witness ==
    /\ pc = "loop"
    /\ input_expr = ""
    /\ last_expression = PyStr("")
    /\ last_result # None
    /\ jmespath_result = EMPTY_TEXT
====
